---- MODULE Spec2Model ----
(***************************************************************************)
(* Model of the crypto dashboard (Streamlit_app.py, app.py) and of the     *)
(* prediction services (api_btc.py, api_solana.py, api_xrp.py).            *)
(*                                                                         *)
(* JSON / Python values are tagged records:                                *)
(*   [t |-> "null"]            None                                        *)
(*   [t |-> "num", n |-> k]    a number, k in units of 1/10000             *)
(*   [t |-> "str", s |-> x]    a literal string                            *)
(*   [t |-> "numstr", n |-> k] the string str(x) of the number k           *)
(*   [t |-> "bool", b |-> x]   True / False                                *)
(*   [t |-> "list", items |-> q]                                           *)
(*   [t |-> "obj", o |-> f]    a dict, f a function from its keys          *)
(*   [t |-> "fmt", ...]        an f-string: prefix followed by str(arg)    *)
(*   [t |-> "repr", of |-> v]  str(v) of a parsed JSON body                *)
(***************************************************************************)
EXTENDS Integers, Sequences, FiniteSets, TLC

VARIABLES
    selected_coin,      \* st.session_state.selected_coin
    predictions,        \* st.session_state.predictions (a dict: key -> result)
    prediction_time,    \* st.session_state.prediction_time (a dict: key -> time)
    now,                \* time.time()
    run,                \* history: what the predict handler did in the latest script run
    p_coin,             \* predict(): argument coin_symbol
    p_env,              \* predict(): what the remote end answers to request 1, 2, ...
    p_out,              \* predict(): outcome of the call
    p_pc,               \* predict(): "ready" before the call, "returned" after
    model,              \* per service: TRUE iff the pickle was loaded at start-up
    features,           \* the query parameters sent to a service
    inference,          \* what model.predict() yields when a model is loaded
    reply,              \* the latest response of a service endpoint
    m_in,               \* market data: what the provider answers to the request
    m_out,              \* market data: outcome of the fetch
    m_pc                \* market data: "ready" before the fetch, the function after

vars == <<selected_coin, predictions, prediction_time, now, run,
          p_coin, p_env, p_out, p_pc, model, features, inference, reply,
          m_in, m_out, m_pc>>

dash_vars == <<selected_coin, predictions, prediction_time, now, run>>
call_vars == <<p_coin, p_env, p_out, p_pc>>
svc_vars  == <<model, features, inference, reply>>
mkt_vars  == <<m_in, m_out, m_pc>>

-----------------------------------------------------------------------------
(* Bounds of the model *)

MaxKeys == 2            \* a JSON object body has at most this many keys
StartTime == 1000       \* time.time() when the session starts
TickStep == 90          \* seconds by which the clock advances in one step
MaxTicks == 2           \* the clock advances at most this many times
MaxSamples == 3         \* a short price series has at most this many price points
MaxDays == 8            \* a long price series covers at most this many days

-----------------------------------------------------------------------------
(* Values *)

JNull      == [t |-> "null"]
JNum(k)    == [t |-> "num", n |-> k]
JStr(x)    == [t |-> "str", s |-> x]
JNumStr(k) == [t |-> "numstr", n |-> k]
JBool(x)   == [t |-> "bool", b |-> x]
JList(q)   == [t |-> "list", items |-> q]
JObj(f)    == [t |-> "obj", o |-> f]
Fmt(p, a)  == [t |-> "fmt", prefix |-> p, arg |-> a]
Repr(v)    == [t |-> "repr", of |-> v]
Exc(name)  == [t |-> "exc", name |-> name]
NotJson    == [t |-> "notjson"]

\* isinstance(v, str)
IsStr(v) == v.t \in {"str", "numstr", "fmt", "repr"}
\* isinstance(v, (int, float)); bool is a subclass of int
IsNum(v) == v.t \in {"num", "bool"}

\* Python truth value of a value
Truthy(v) ==
    CASE v.t = "null"   -> FALSE
      [] v.t = "num"    -> v.n # 0
      [] v.t = "str"    -> v.s # ""
      [] v.t = "bool"   -> v.b
      [] v.t = "list"   -> v.items # <<>>
      [] v.t = "obj"    -> DOMAIN v.o # {}
      [] OTHER          -> TRUE

\* a or b
Or(a, b) == IF Truthy(a) THEN a ELSE b

\* dict.get(k)
Get(d, k) == IF k \in DOMAIN d.o THEN d.o[k] ELSE JNull

-----------------------------------------------------------------------------
(* The remote end, as the dashboard sees it *)

Http(status, body) == [kind |-> "http", status |-> status, body |-> body]
TimeoutResp == [kind |-> "timeout"]
ConnErrResp == [kind |-> "connerr"]
OtherExcResp == [kind |-> "exc"]

PriorityKeys == <<"predicted_next_day_high_usd", "predicted_next_day_high",
                  "prediction", "predicted_high", "next_day_high">>

Keys == {PriorityKeys[i] : i \in 1..Len(PriorityKeys)}
            \cup {"error", "high", "predicted_high_next", "currency"}

Vals == {JNull, JNum(0), JNum(50000), JStr(""), JStr("n/a"), JNumStr(5200),
         JBool(TRUE), JList(<<JNum(10000)>>)}

KeySets == {K \in SUBSET Keys : Cardinality(K) <= MaxKeys}

Objects == UNION {[K -> Vals] : K \in KeySets}

NonObjects == {JNull, JNum(50000), JStr("ok"), JStr("error"),
               JList(<<JStr("error")>>), JList(<<>>)}

Bodies == {JObj(f) : f \in Objects} \cup NonObjects \cup {NotJson}

StatusCodes == {200, 429, 404, 500}

Responses == {Http(200, b) : b \in Bodies}
                \cup {Http(s, NotJson) : s \in StatusCodes \ {200}}
                \cup {TimeoutResp, ConnErrResp, OtherExcResp}

-----------------------------------------------------------------------------
(* Streamlit_app.py: predict(api_url, payload, coin_symbol) *)

max_retries == 1
retry_delay == 1

\* how one pass through the loop body ends
Return(v)   == [op |-> "return", val |-> v]
Continue(d) == [op |-> "continue", sleep |-> d]
Raise(e)    == [op |-> "raise", exc |-> e]

HasBudget_OffByOne(attempt) == attempt < max_retries

\* attempt < max_retries - 1
HasBudget(attempt) == attempt < max_retries - 1

ErrorIn_Truthy(result) == result.t = "obj" /\ Truthy(Get(result, "error"))

\* 'error' in result, for a dict (key), a list (element) or a str (substring)
ErrorIn(result) ==
    CASE result.t = "obj"  -> "error" \in DOMAIN result.o
      [] result.t = "list" -> \E i \in DOMAIN result.items : result.items[i] = JStr("error")
      [] result.t = "str"  -> result.s \in {"error"}
      [] OTHER             -> FALSE

\* float(high_value)
Float(v) ==
    CASE v.t = "num"    -> Return(JNum(v.n))
      [] v.t = "numstr" -> Return(JNum(v.n))
      [] v.t = "bool"   -> Return(JNum(IF v.b THEN 10000 ELSE 0))
      [] v.t = "str"    -> Raise("ValueError")
      [] OTHER          -> Raise("TypeError")

\* the chain of result.get(...) or ... and the two returns after it
Extract(result) ==
    LET prediction == Or(Or(Or(Or(Get(result, "predicted_next_day_high_usd"),
                                  Get(result, "predicted_next_day_high")),
                               Get(result, "prediction")),
                            Get(result, "predicted_high")),
                         Get(result, "next_day_high"))
    IN  IF prediction # JNull THEN Return(prediction) ELSE Return(Repr(result))

\* the branch response.status_code == 200
On200(coin_symbol, body, attempt) ==
    IF body = NotJson THEN Raise("JSONDecodeError")
    ELSE IF body.t \notin {"obj", "list", "str"} THEN Raise("TypeError")
    ELSE IF ErrorIn(body) THEN
        IF HasBudget(attempt) THEN Continue(<<retry_delay>>)
        ELSE IF body.t = "obj" THEN Return(Fmt("API Error: ", body.o["error"]))
        ELSE Raise("TypeError")
    ELSE IF body.t # "obj" THEN Raise("AttributeError")
    ELSE LET high_value == Or(Get(body, "high"), Get(body, "predicted_high_next"))
         IN  IF coin_symbol = "XRP" /\ Truthy(high_value)
             THEN Float(high_value)
             ELSE Extract(body)

TryBody_BusyForEveryStatus(coin_symbol, resp, attempt) ==
    CASE resp.kind = "timeout" -> Raise("Timeout")
      [] resp.kind = "connerr" -> Raise("ConnectionError")
      [] resp.kind = "exc"     -> Raise("RequestException")
      [] OTHER ->
            IF resp.status = 200 THEN On200(coin_symbol, resp.body, attempt)
            ELSE IF HasBudget(attempt) THEN Continue(<<retry_delay * (attempt + 1)>>)
            ELSE Return(JStr("API busy, please try again"))

\* the body of the try statement
TryBody(coin_symbol, resp, attempt) ==
    CASE resp.kind = "timeout" -> Raise("Timeout")
      [] resp.kind = "connerr" -> Raise("ConnectionError")
      [] resp.kind = "exc"     -> Raise("RequestException")
      [] OTHER ->
            IF resp.status = 200 THEN On200(coin_symbol, resp.body, attempt)
            ELSE IF resp.status = 429 THEN
                IF HasBudget(attempt) THEN Continue(<<retry_delay * (attempt + 1)>>)
                ELSE Return(JStr("API busy, please try again"))
            ELSE Return(Fmt("API Error: ", [t |-> "int", i |-> resp.status]))

ExceptClauses_NoTimeout(exc, attempt) ==
    CASE exc = "ConnectionError" ->
            IF HasBudget(attempt) THEN Continue(<<retry_delay>>)
            ELSE Return(JStr("Connection Error"))
      [] OTHER -> Return(Fmt("Error: ", Exc(exc)))

ExceptClauses_NoConnectionError(exc, attempt) ==
    CASE exc = "Timeout" ->
            IF HasBudget(attempt) THEN Continue(<<>>)
            ELSE Return(JStr("Request Timeout"))
      [] OTHER -> Return(Fmt("Error: ", Exc(exc)))

\* the except clauses
ExceptClauses(exc, attempt) ==
    CASE exc = "Timeout" ->
            IF HasBudget(attempt) THEN Continue(<<>>)
            ELSE Return(JStr("Request Timeout"))
      [] exc = "ConnectionError" ->
            IF HasBudget(attempt) THEN Continue(<<retry_delay>>)
            ELSE Return(JStr("Connection Error"))
      [] OTHER -> Return(Fmt("Error: ", Exc(exc)))

\* one iteration of the for loop
Attempt(coin_symbol, resp, attempt) ==
    LET body == TryBody(coin_symbol, resp, attempt)
    IN  IF body.op = "raise" THEN ExceptClauses(body.exc, attempt) ELSE body

NoOut == [raised |-> FALSE, ret |-> JNull, requests |-> 0, sleeps |-> <<>>]

RECURSIVE Loop(_, _, _, _, _)
Loop(coin_symbol, env, attempt, requests, sleeps) ==
    IF attempt >= max_retries
    THEN [raised |-> FALSE, ret |-> JStr("Failed after retries"),
          requests |-> requests, sleeps |-> sleeps]
    ELSE LET step == Attempt(coin_symbol, env[attempt + 1], attempt)
         IN  CASE step.op = "return" ->
                    [raised |-> FALSE, ret |-> step.val,
                     requests |-> requests + 1, sleeps |-> sleeps]
               [] step.op = "raise" ->
                    [raised |-> TRUE, ret |-> Exc(step.exc),
                     requests |-> requests + 1, sleeps |-> sleeps]
               [] OTHER ->
                    Loop(coin_symbol, env, attempt + 1, requests + 1,
                         sleeps \o step.sleep)

predict(env, coin_symbol) == Loop(coin_symbol, env, 0, 0, <<>>)

-----------------------------------------------------------------------------
(* app.py: predict(api_url, payload) *)

\* the string of a status that is not 200 embeds the status code and
\* response.text[:100], here the body itself
predict_app(resp) ==
    LET out(v) == [raised |-> FALSE, ret |-> v, requests |-> 1, sleeps |-> <<>>]
    IN  CASE resp.kind = "timeout" ->
                out(JStr("Request Timeout - API took too long to respond"))
          [] resp.kind = "connerr" ->
                out(JStr("Connection Error - Unable to reach API"))
          [] resp.kind = "exc" -> out(Fmt("Error: ", Exc("RequestException")))
          [] OTHER ->
                IF resp.status # 200
                THEN out(Fmt("API Error: ", [t |-> "int_text", i |-> resp.status,
                                             text |-> resp.body]))
                ELSE IF resp.body = NotJson
                THEN out(Fmt("Error: ", Exc("JSONDecodeError")))
                ELSE IF resp.body.t # "obj"
                THEN out(Fmt("Error: ", Exc("AttributeError")))
                ELSE LET result == resp.body
                         prediction ==
                            Or(Or(Or(Get(result, "predicted_next_day_high"),
                                     Get(result, "prediction")),
                                  Get(result, "predicted_high")),
                               Get(result, "next_day_high"))
                     IN  IF prediction # JNull THEN out(prediction)
                         ELSE out(Repr(result))

-----------------------------------------------------------------------------
(* IEEE-754 double arithmetic of the services.  A natural number of any    *)
(* size is a sequence of bits, least significant first; a positive double  *)
(* is [m |-> bits, e |-> exponent], its value m * 2^e, m of at most        *)
(* MantBits bits.                                                          *)

MantBits == 53

RECURSIVE Bits(_)
Bits(n) == IF n = 0 THEN <<>> ELSE <<n % 2>> \o Bits(n \div 2)

RECURSIVE Nat2(_)
Nat2(b) == IF b = <<>> THEN 0 ELSE b[1] + 2 * Nat2(Tail(b))

\* the bits of b + c, c a small natural
RECURSIVE BAdd(_, _)
BAdd(b, c) ==
    IF c = 0 THEN b
    ELSE IF b = <<>> THEN Bits(c)
    ELSE LET x == b[1] + c
         IN  <<x % 2>> \o BAdd(Tail(b), x \div 2)

RECURSIVE MulCarry(_, _, _)
MulCarry(b, k, carry) ==
    IF b = <<>> THEN Bits(carry)
    ELSE LET x == b[1] * k + carry
         IN  <<x % 2>> \o MulCarry(Tail(b), k, x \div 2)

\* the bits of b * k, k a small natural
BMul(b, k) == MulCarry(b, k, 0)

\* b / 2^s rounded to the nearest natural, ties to even
ShiftRNE(b, s) ==
    IF s <= 0 THEN b
    ELSE IF s > Len(b) THEN <<>>
    ELSE LET q      == SubSeq(b, s + 1, Len(b))
             guard  == b[s] = 1
             sticky == \E i \in 1..(s - 1) : b[i] = 1
             odd    == q # <<>> /\ q[1] = 1
         IN  IF guard /\ (sticky \/ odd) THEN BAdd(q, 1) ELSE q

\* the double nearest to the exact value m * 2^e
Normalize(m, e) ==
    LET s == IF Len(m) > MantBits THEN Len(m) - MantBits ELSE 0
        r == ShiftRNE(m, s)
    IN  IF Len(r) > MantBits
        THEN [m |-> Tail(r), e |-> e + s + 1]
        ELSE [m |-> r, e |-> e + s]

\* the bits of the natural written in groups of four decimal digits
RECURSIVE OfDigits(_, _)
OfDigits(groups, acc) ==
    IF groups = <<>> THEN acc
    ELSE OfDigits(Tail(groups), BAdd(BMul(acc, 10000), Head(groups)))

\* float(n) of an integer
DoubleOfInt(n) == [m |-> Bits(n), e |-> 0]

\* x * y in double arithmetic, x holding an integer below 2^30
FMul(x, y) == Normalize(BMul(y.m, Nat2(x.m)), x.e + y.e)

RECURSIVE Pow(_, _)
Pow(b, k) == IF k = 0 THEN 1 ELSE b * Pow(b, k - 1)

Round_Ceil(x, ndigits) ==
    LET scaled == BMul(x.m, Pow(10, ndigits))
        s      == 0 - x.e
        q      == SubSeq(scaled, s + 1, Len(scaled))
        units  == IF x.e >= 0 THEN Nat2(scaled) * Pow(2, x.e)
                  ELSE IF \E i \in 1..s : i <= Len(scaled) /\ scaled[i] = 1
                       THEN Nat2(q) + 1 ELSE Nat2(q)
    IN  units * Pow(10, 4 - ndigits)

\* round(x, ndigits): the decimal nearest to the exact value of x, ties to
\* even, as a number in units of 1/10000
Round(x, ndigits) ==
    LET scaled == BMul(x.m, Pow(10, ndigits))
        units  == IF x.e >= 0 THEN Nat2(scaled) * Pow(2, x.e)
                  ELSE Nat2(ShiftRNE(scaled, 0 - x.e))
    IN  units * Pow(10, 4 - ndigits)

\* the literal 1.02: 4593671619917906 * 2^-52
Factor102 == [m |-> OfDigits(<<4593, 6716, 1991, 7906>>, <<>>), e |-> 0 - 52]

Factor1015_As102 == Factor102

\* the literal 1.015: 4571153621781053 * 2^-52
Factor1015 == [m |-> OfDigits(<<4571, 1536, 2178, 1053>>, <<>>), e |-> 0 - 52]

-----------------------------------------------------------------------------
(* The prediction services: api_btc.py, api_solana.py, api_xrp.py *)

Services == {"BTC", "SOL", "XRP"}

\* the query parameters the dashboard sends
Payload == [open |-> 100, high |-> 105, low |-> 95, close |-> 102,
            volume |-> 3000000, marketCap |-> 1000000000,
            price_diff |-> 5, daily_range |-> 10, SMA_7 |-> 101]

Highs == {100, 105, 110, 200}

FeatureVectors == {[Payload EXCEPT !.high = h] : h \in Highs}

\* model.predict(...)[0]: a double (106.5, 106.625), or an exception
Inferences == {[ok |-> TRUE, x |-> [m |-> Bits(213), e |-> 0 - 1]],
               [ok |-> TRUE, x |-> [m |-> Bits(853), e |-> 0 - 3]],
               [ok |-> FALSE]}

Reply(svc, endpoint, status, body) ==
    [svc |-> svc, endpoint |-> endpoint, status |-> status, body |-> body]

NoReply == Reply("none", "none", 0, JNull)

\* api_btc.py: GET /predict/bitcoin
predict_bitcoin(mdl, f, inf) ==
    IF mdl /\ ~inf.ok
    THEN Reply("BTC", "predict", 200, JObj("error" :> JStr("inference failed")))
    ELSE LET prediction == IF mdl THEN inf.x
                           ELSE FMul(DoubleOfInt(f.high), Factor1015)
         IN  Reply("BTC", "predict", 200,
                   JObj(("predicted_next_day_high" :> JNum(Round(prediction, 2)))
                        @@ ("currency" :> JStr("Bitcoin (BTC)"))
                        @@ ("model" :> JStr("Random Forest"))))

\* api_btc.py: GET /health
health_btc(mdl) ==
    Reply("BTC", "health", 200, JObj("status" :> JStr("Random Forest is ready")))

\* api_solana.py: GET /predict
predict_get(mdl, f, inf) ==
    IF mdl /\ ~inf.ok
    THEN Reply("SOL", "predict", 500,
               JObj("detail" :> JStr("Prediction error: inference failed")))
    ELSE LET prediction == IF mdl THEN inf.x
                           ELSE FMul(DoubleOfInt(f.high), Factor102)
             prediction_source ==
                IF mdl THEN "LightGBM Model"
                ELSE "Fallback Estimation (Model not loaded)"
         IN  Reply("SOL", "predict", 200,
                   JObj(("predicted_next_day_high" :> JNum(Round(prediction, 4)))
                        @@ ("currency" :> JStr("Solana (SOL)"))
                        @@ ("model" :> JStr(prediction_source))
                        @@ ("input_features" :>
                                JObj([k \in DOMAIN f |-> [t |-> "float", v |-> f[k]]]))))

\* api_solana.py: GET /health; exists is os.path.exists(MODEL_PATH)
health_check(mdl, exists) ==
    Reply("SOL", "health", 200,
          JObj(("status" :> JStr("healthy"))
               @@ ("model_loaded" :> JBool(mdl))
               @@ ("model_path" :> JStr("models/solana_lightgbm_model.pkl"))
               @@ ("model_exists" :> JBool(exists))))

\* api_xrp.py: GET /predict_latest; str(prediction[0]) of the doubles of
\* Inferences is their exact decimal value
predict_latest(mdl, inf) ==
    IF ~mdl
    THEN Reply("XRP", "predict", 200, JObj("error" :> JStr("Model not loaded")))
    ELSE IF ~inf.ok
    THEN Reply("XRP", "predict", 200,
               JObj("error" :> JStr("Prediction failed: inference failed")))
    ELSE Reply("XRP", "predict", 200, JObj("high" :> JNumStr(Round(inf.x, 4))))

\* api_xrp.py: GET /health
health_xrp(mdl) ==
    Reply("XRP", "health", 200,
          JObj(("status" :> JStr(IF mdl THEN "Ridge Regressor is ready"
                                 ELSE "Model not loaded"))
               @@ ("model_loaded" :> JBool(mdl))))

-----------------------------------------------------------------------------
(* Streamlit_app.py: the dashboard controller *)

Coins == {"Bitcoin", "Ethereum", "XRP", "Solana"}

coins_data_ByCid ==
    ("Bitcoin" :> "BTC") @@ ("Ethereum" :> "ETH") @@ ("XRP" :> "ripple")
        @@ ("Solana" :> "SOL")

\* coins_data[coin][1]
coins_data ==
    ("Bitcoin" :> "BTC") @@ ("Ethereum" :> "ETH") @@ ("XRP" :> "XRP")
        @@ ("Solana" :> "SOL")

Symbols == {coins_data[c] : c \in Coins}

CacheWindow == 180

\* what a prediction endpoint answers in the dashboard runs: a prediction,
\* an error status, an unreachable service
DashResponses == {Http(200, JObj("prediction" :> JNum(50000))),
                  Http(500, NotJson), ConnErrResp}

DashEnvs == [1..max_retries -> DashResponses]

MaxTime == StartTime + MaxTicks * TickStep

\* dict.get(key, default)
GetOr(d, key, default) == IF key \in DOMAIN d THEN d[key] ELSE default

Store_Replace(d, key, value) == (key :> value)

\* d[key] = value
Store(d, key, value) == (key :> value) @@ d

UseCached_NumbersOnly(symbol, preds, times, t) ==
    /\ t - GetOr(times, symbol, 0) < CacheWindow
    /\ symbol \in DOMAIN preds
    /\ IsNum(preds[symbol])

UseCached_Inclusive(symbol, preds, times, t) ==
    t - GetOr(times, symbol, 0) <= CacheWindow /\ symbol \in DOMAIN preds

\* time.time() - last_time < 180 and symbol in st.session_state.predictions
UseCached(symbol, preds, times, t) ==
    t - GetOr(times, symbol, 0) < CacheWindow /\ symbol \in DOMAIN preds

\* the predict button was not pressed in the run
NoRun == [handler |-> "none", requests |-> 0]

\* no market-data fetch was made
NoFetch == [raised |-> FALSE, ret |-> JNull, requests |-> 0]

InitDash ==
    /\ selected_coin = "Bitcoin"
    /\ predictions = <<>>
    /\ prediction_time = <<>>
    /\ now = StartTime
    /\ run = NoRun

InitCall ==
    /\ p_coin = "none"
    /\ p_env = <<>>
    /\ p_out = NoOut
    /\ p_pc = "ready"

InitSvcIdle ==
    /\ model = [s \in Services |-> TRUE]
    /\ features = Payload
    /\ inference = [ok |-> FALSE]
    /\ reply = NoReply

InitMktIdle ==
    /\ m_in = [kind |-> "exc"]
    /\ m_out = NoFetch
    /\ m_pc = "idle"

\* one of the four asset buttons is pressed
SelectCoin(c) ==
    /\ selected_coin' = c
    /\ run' = NoRun
    /\ UNCHANGED <<predictions, prediction_time, now>>
    /\ UNCHANGED <<call_vars, svc_vars, mkt_vars>>

\* the predict button of the selected asset is pressed
PressPredict ==
    LET symbol == coins_data[selected_coin]
    IN  /\ IF UseCached(symbol, predictions, prediction_time, now)
           THEN /\ run' = [handler |-> "cached", requests |-> 0]
                /\ UNCHANGED <<predictions, prediction_time, now>>
           ELSE \E env \in DashEnvs, elapsed \in {0, TickStep} :
                    LET out == predict(env, symbol)
                    IN  /\ now + elapsed <= MaxTime
                        /\ now' = now + elapsed
                        /\ run' = [handler |-> "fetched", requests |-> out.requests]
                        /\ IF out.raised
                           THEN UNCHANGED <<predictions, prediction_time>>
                           ELSE /\ predictions' = Store(predictions, symbol, out.ret)
                                /\ prediction_time' = Store(prediction_time, symbol, now')
        /\ UNCHANGED selected_coin
        /\ UNCHANGED <<call_vars, svc_vars, mkt_vars>>

\* time passes
Tick ==
    /\ now + TickStep <= MaxTime
    /\ now' = now + TickStep
    /\ UNCHANGED <<selected_coin, predictions, prediction_time, run>>
    /\ UNCHANGED <<call_vars, svc_vars, mkt_vars>>

Init == InitDash /\ InitCall /\ InitSvcIdle /\ InitMktIdle

Next ==
    \/ \E c \in Coins : SelectCoin(c)
    \/ PressPredict
    \/ Tick

Spec == Init /\ [][Next]_vars

-----------------------------------------------------------------------------
(* predict() as a function of its inputs *)

\* what the services of the repository answer to the dashboard's request
ServiceAnswers ==
    {Http(r.status, r.body) :
        r \in UNION {{predict_bitcoin(m, Payload, inf), predict_get(m, Payload, inf),
                      predict_latest(m, inf)} : m \in BOOLEAN, inf \in Inferences}}

CallInputs == Responses \cup ServiceAnswers

InitPredict ==
    /\ InitDash
    /\ InitSvcIdle
    /\ InitMktIdle
    /\ p_coin \in Symbols
    /\ p_env \in [1..max_retries -> CallInputs]
    /\ p_out = NoOut
    /\ p_pc = "ready"

\* Streamlit_app.py: predict(api_url, payload, coin_symbol=symbol)
CallPredict ==
    /\ p_pc = "ready"
    /\ p_out' = predict(p_env, p_coin)
    /\ p_pc' = "returned"
    /\ UNCHANGED <<p_coin, p_env, dash_vars, svc_vars, mkt_vars>>

\* app.py: predict(api_url, payload)
CallPredictApp ==
    /\ p_pc = "ready"
    /\ p_out' = predict_app(p_env[1])
    /\ p_pc' = "returned_app"
    /\ UNCHANGED <<p_coin, p_env, dash_vars, svc_vars, mkt_vars>>

NextPredict == CallPredict \/ CallPredictApp

SpecPredict == InitPredict /\ [][NextPredict]_vars

-----------------------------------------------------------------------------
(* The services, and the dashboard's predict() calling them *)

InitSvc ==
    /\ InitDash
    /\ InitCall
    /\ InitMktIdle
    /\ model \in [Services -> BOOLEAN]
    /\ features \in FeatureVectors
    /\ inference \in Inferences
    /\ reply = NoReply

PredictBitcoin ==
    /\ reply' = predict_bitcoin(model["BTC"], features, inference)
    /\ UNCHANGED <<model, features, inference, dash_vars, call_vars, mkt_vars>>

HealthBtc ==
    /\ reply' = health_btc(model["BTC"])
    /\ UNCHANGED <<model, features, inference, dash_vars, call_vars, mkt_vars>>

PredictGet ==
    /\ reply' = predict_get(model["SOL"], features, inference)
    /\ UNCHANGED <<model, features, inference, dash_vars, call_vars, mkt_vars>>

HealthCheck ==
    /\ \E exists \in BOOLEAN :
            /\ model["SOL"] => exists
            /\ reply' = health_check(model["SOL"], exists)
    /\ UNCHANGED <<model, features, inference, dash_vars, call_vars, mkt_vars>>

PredictLatest ==
    /\ reply' = predict_latest(model["XRP"], inference)
    /\ UNCHANGED <<model, features, inference, dash_vars, call_vars, mkt_vars>>

HealthXrp ==
    /\ reply' = health_xrp(model["XRP"])
    /\ UNCHANGED <<model, features, inference, dash_vars, call_vars, mkt_vars>>

\* Streamlit_app.py, the call site of predict(): the request reaches the
\* service of the repository and its answer is what predict() receives
DashboardCall ==
    /\ p_pc = "ready"
    /\ reply.endpoint = "predict"
    /\ reply.svc = "XRP" \/ features = Payload
    /\ p_coin' = reply.svc
    /\ p_env' = [i \in 1..max_retries |-> Http(reply.status, reply.body)]
    /\ p_out' = predict(p_env', p_coin')
    /\ p_pc' = "returned"
    /\ UNCHANGED <<dash_vars, svc_vars, mkt_vars>>

NextSvc ==
    \/ PredictBitcoin
    \/ HealthBtc
    \/ PredictGet
    \/ HealthCheck
    \/ PredictLatest
    \/ HealthXrp
    \/ DashboardCall

SpecSvc == InitSvc /\ [][NextSvc]_vars

-----------------------------------------------------------------------------
(* Streamlit_app.py: get_coin_history(coin_id) *)

\* a JSON integer, not scaled: a timestamp in milliseconds
JInt(i) == [t |-> "int", i |-> i]

\* milliseconds of a day: the division by 1000 and the calendar date of
\* datetime.fromtimestamp(), taken in UTC
DayMs == 86400000

\* the days kept by result[-7:]
KeptDays == 7

\* datetime.fromtimestamp(ms / 1000).date(), as a day number
DateOf(ms) == ms \div DayMs

\* the number price_point[0] holds, in milliseconds
TimestampOf(v) ==
    CASE v.t = "int"  -> v.i
      [] v.t = "bool" -> IF v.b THEN 1 ELSE 0
      [] OTHER        -> v.n \div 10000

\* one pass through the loop over prices, up to price = price_point[1]
ParsePoint(price_point) ==
    IF price_point.t = "list" THEN
        IF Len(price_point.items) < 1 THEN [ok |-> FALSE, exc |-> "IndexError"]
        ELSE IF price_point.items[1].t \notin {"int", "num", "bool"}
        THEN [ok |-> FALSE, exc |-> "TypeError"]
        ELSE IF Len(price_point.items) < 2 THEN [ok |-> FALSE, exc |-> "IndexError"]
        ELSE [ok |-> TRUE, date |-> DateOf(TimestampOf(price_point.items[1])),
              price |-> price_point.items[2]]
    ELSE IF price_point.t = "obj" THEN [ok |-> FALSE, exc |-> "KeyError"]
    ELSE [ok |-> FALSE, exc |-> "TypeError"]

\* daily_data[date]: the prices of the date, in the order received
PricesOn(parsed, date) ==
    LET OnDate(x) == x.date = date
        points == SelectSeq(parsed, OnDate)
    IN  [i \in 1..Len(points) |-> points[i].price]

\* sorted(daily_data.items()): the dates in ascending order
RECURSIVE SortedDates(_)
SortedDates(dates) ==
    IF dates = {} THEN <<>>
    ELSE LET first == CHOOSE d \in dates : \A e \in dates : d <= e
         IN  <<first>> \o SortedDates(dates \ {first})

\* max(prices) and min(prices) succeed: one price, numbers only, or equal strings
Comparable(prices) ==
    \/ Len(prices) = 1
    \/ \A i \in DOMAIN prices : prices[i].t = "num"
    \/ \A i \in DOMAIN prices : prices[i].t = "str" /\ prices[i] = prices[1]

MaxPrice(prices) ==
    IF \A i \in DOMAIN prices : prices[i].t = "num"
    THEN CHOOSE p \in {prices[i] : i \in DOMAIN prices} :
            \A i \in DOMAIN prices : prices[i].n <= p.n
    ELSE prices[1]

MinPrice(prices) ==
    IF \A i \in DOMAIN prices : prices[i].t = "num"
    THEN CHOOSE p \in {prices[i] : i \in DOMAIN prices} :
            \A i \in DOMAIN prices : p.n <= prices[i].n
    ELSE prices[1]

Candle_LowOfEnds(date, prices) ==
    [date |-> date, open |-> prices[1], high |-> MaxPrice(prices),
     low |-> MinPrice(<<prices[1], prices[Len(prices)]>>),
     close |-> prices[Len(prices)]]

\* the dict appended to result for one date
Candle(date, prices) ==
    [date |-> date, open |-> prices[1], high |-> MaxPrice(prices),
     low |-> MinPrice(prices), close |-> prices[Len(prices)]]

\* result[-7:]
LastSeven(result) ==
    IF Len(result) <= KeptDays THEN result
    ELSE SubSeq(result, Len(result) - KeptDays + 1, Len(result))

Candles(items) == [t |-> "candles", items |-> items]

\* the body of the try statement of get_coin_history
HistoryBody(resp) ==
    IF resp.kind # "http" THEN Raise("RequestException")
    ELSE IF resp.body = NotJson THEN Raise("JSONDecodeError")
    ELSE IF resp.body.t # "obj" THEN Raise("AttributeError")
    ELSE LET prices == Get(resp.body, "prices")
         IN  IF ~Truthy(prices) THEN Return(JNull)
             ELSE IF prices.t # "list" THEN Raise("TypeError")
             ELSE LET parsed == [i \in 1..Len(prices.items) |->
                                    ParsePoint(prices.items[i])]
                      dates  == SortedDates({parsed[i].date : i \in DOMAIN parsed})
                      result == [k \in 1..Len(dates) |->
                                    Candle(dates[k], PricesOn(parsed, dates[k]))]
                  IN  IF \E i \in DOMAIN parsed : ~parsed[i].ok
                      THEN Raise("TypeError")
                      ELSE IF \E k \in DOMAIN dates :
                                ~Comparable(PricesOn(parsed, dates[k]))
                      THEN Raise("TypeError")
                      ELSE Return(Candles(LastSeven(result)))

get_coin_history_Retry(resp) ==
    LET body == HistoryBody(resp)
    IN  IF body.op = "raise"
        THEN [raised |-> FALSE, ret |-> JNull, requests |-> 2]
        ELSE [raised |-> FALSE, ret |-> body.val, requests |-> 1]

get_coin_history(resp) ==
    LET body == HistoryBody(resp)
    IN  IF body.op = "raise"
        THEN [raised |-> FALSE, ret |-> JNull, requests |-> 1]
        ELSE [raised |-> FALSE, ret |-> body.val, requests |-> 1]

-----------------------------------------------------------------------------
(* The market-data provider *)

\* price points as the provider sends them
Point(day, offset, price) == JList(<<JInt(day * DayMs + offset), JNum(price)>>)

GoodPoints == {Point(d, f, p) : d \in 0..1, f \in {0, DayMs - 1}, p \in {100000, 120000, 150000}}

\* price points without a readable timestamp or price
BrokenPoints == {JNum(50000), JStr("ab"), JNull, JList(<<>>), JList(<<JInt(0)>>),
                 JList(<<JStr("x"), JNum(100000)>>),
                 JList(<<JNull, JNum(100000)>>)}

\* price points of other shapes
OddPoints == {JList(<<JInt(0), JNum(100000), JNum(990000)>>),
              JList(<<JInt(0), JStr("abc")>>)}

Points == GoodPoints \cup BrokenPoints \cup OddPoints

ShortSeries == UNION {[1..n -> Points] : n \in 1..MaxSamples}

\* one price point a day for n days, the price rising by 1 a day
DailySeries(n) == [d \in 1..n |-> Point(d - 1, 0, 100000 + 10000 * d)]

LongSeries == {DailySeries(n) : n \in 6..MaxDays}
                \cup {DailySeries(n) \o <<x>> : n \in 6..MaxDays, x \in Points}
                \cup {DailySeries(n) \o <<x, y>> :
                        n \in 6..MaxDays, x \in GoodPoints, y \in GoodPoints}

PriceSeries == ShortSeries \cup LongSeries

HistoryResponses ==
    {TimeoutResp, ConnErrResp, Http(200, NotJson),
     Http(429, JObj("status" :> JStr("rate limited"))),
     Http(200, JList(<<>>)), Http(200, JNum(50000)), Http(200, JNull),
     Http(200, JStr("ok")), Http(200, JObj(<<>>)),
     Http(200, JObj("prices" :> JNull)), Http(200, JObj("prices" :> JList(<<>>))),
     Http(200, JObj("prices" :> JStr("n/a"))),
     Http(200, JObj("prices" :> JNum(50000)))}
        \cup {Http(200, JObj("prices" :> JList(q))) : q \in PriceSeries}

-----------------------------------------------------------------------------
(* Streamlit_app.py: get_crypto_prices() *)

\* the dict literal of the loop: provider id -> symbol
TickerSymbols ==
    ("bitcoin" :> "BTC") @@ ("ethereum" :> "ETH") @@ ("xrp" :> "XRP")
        @@ ("solana" :> "SOL")

\* the string returned by the except clause
StaticTicker == JStr("BTC/USD 67,450 ETH/USD 3,120 XRP/USD 0.512 SOL/USD 102.4")

\* info.get(key, 0)
GetOrZero(info, key) == IF key \in DOMAIN info.o THEN info.o[key] ELSE JNum(0)

\* one pass through the loop over data.items(): the exception it raises, or "none"
TickerPartFails(coin, info) ==
    IF coin \notin DOMAIN TickerSymbols THEN "KeyError"
    ELSE IF info.t # "obj" THEN "AttributeError"
    ELSE IF GetOrZero(info, "usd_24h_change").t \notin {"num", "bool"} THEN "TypeError"
    ELSE IF GetOrZero(info, "usd").t \notin {"num", "bool"} THEN "TypeError"
    ELSE "none"

\* the three spans appended to parts for one coin
TickerPart(coin, info) ==
    LET change == GetOrZero(info, "usd_24h_change")
        amount == IF change.t = "bool" THEN (IF change.b THEN 10000 ELSE 0) ELSE change.n
    IN  [symbol |-> TickerSymbols[coin], price |-> GetOrZero(info, "usd"),
         arrow |-> IF amount >= 0 THEN "up" ELSE "down",
         change |-> IF amount >= 0 THEN amount ELSE 0 - amount]

\* the body of the try statement of get_crypto_prices
PricesBody(resp) ==
    IF resp.kind # "http" THEN Raise("RequestException")
    ELSE IF resp.body = NotJson THEN Raise("JSONDecodeError")
    ELSE IF ~Truthy(resp.body) THEN Raise("ValueError")
    ELSE IF resp.body.t # "obj" THEN Raise("AttributeError")
    ELSE LET data == resp.body.o
         IN  IF \E coin \in DOMAIN data : TickerPartFails(coin, data[coin]) # "none"
             THEN Raise("Exception")
             ELSE Return([t |-> "fmt", prefix |-> "ticker",
                          arg |-> [coin \in DOMAIN data |-> TickerPart(coin, data[coin])]])

get_crypto_prices(resp) ==
    LET body == PricesBody(resp)
    IN  IF body.op = "raise"
        THEN [raised |-> FALSE, ret |-> StaticTicker, requests |-> 1]
        ELSE [raised |-> FALSE, ret |-> body.val, requests |-> 1]

\* what the provider answers to /simple/price
Infos == {JObj(("usd" :> JNum(50000)) @@ ("usd_24h_change" :> JNum(12500))),
          JObj(("usd" :> JNum(50000)) @@ ("usd_24h_change" :> JNum(0 - 3400))),
          JObj(<<>>),
          JObj(("usd" :> JNull) @@ ("usd_24h_change" :> JNum(12500))),
          JObj(("usd" :> JNum(50000)) @@ ("usd_24h_change" :> JNull)),
          JNum(50000)}

TickerKeySets == {K \in SUBSET {"bitcoin", "solana", "status"} : Cardinality(K) <= 2}

SpotResponses == {Http(200, JObj(f)) : f \in UNION {[K -> Infos] : K \in TickerKeySets}}

MktResponses == HistoryResponses \cup SpotResponses

-----------------------------------------------------------------------------
(* The market-data fetches as functions of the provider's answer *)

InitMarket ==
    /\ InitDash
    /\ InitSvcIdle
    /\ p_coin = "none"
    /\ p_env = <<>>
    /\ p_out = NoOut
    /\ p_pc = "idle"
    /\ m_in \in MktResponses
    /\ m_out = NoFetch
    /\ m_pc = "ready"

\* Streamlit_app.py: coin_data = get_coin_history(cid)
GetCoinHistory ==
    /\ m_pc = "ready"
    /\ m_out' = get_coin_history(m_in)
    /\ m_pc' = "history"
    /\ UNCHANGED <<m_in, dash_vars, call_vars, svc_vars>>

\* Streamlit_app.py: prices_html = get_crypto_prices()
GetCryptoPrices ==
    /\ m_pc = "ready"
    /\ m_out' = get_crypto_prices(m_in)
    /\ m_pc' = "prices"
    /\ UNCHANGED <<m_in, dash_vars, call_vars, svc_vars>>

NextMarket == GetCoinHistory \/ GetCryptoPrices

SpecMarket == InitMarket /\ [][NextMarket]_vars

\* every HTTP fetch of the dashboard: predict() and the market-data fetches
InitFetch == InitPredict \/ InitMarket

NextFetch == NextPredict \/ NextMarket

SpecFetch == InitFetch /\ [][NextFetch]_vars

-----------------------------------------------------------------------------
(* Properties of predict(), checked under SpecPredict *)

\* every request of the call is answered by r
AllAnswers(r) == \A i \in DOMAIN p_env : p_env[i] = r

C2_BusyAfterMaxRetries ==
    (p_pc = "returned" /\ \A i \in DOMAIN p_env :
                            p_env[i].kind = "http" /\ p_env[i].status = 429)
        => /\ p_out.requests = max_retries
           /\ p_out.sleeps = [k \in 1..(max_retries - 1) |-> retry_delay * k]
           /\ p_out.ret = JStr("API busy, please try again")

C2_Witness ==
    /\ p_pc = "returned"
    /\ AllAnswers(Http(429, NotJson))
    /\ p_out.requests = max_retries
    /\ p_out.ret = JStr("API busy, please try again")

\* the value of the first key of PriorityKeys, from position i on, that the
\* object holds with a non-null value; the stringified object if none does
RECURSIVE FirstNonNull(_, _)
FirstNonNull(result, i) ==
    IF i > Len(PriorityKeys) THEN Repr(result)
    ELSE IF Get(result, PriorityKeys[i]) # JNull THEN Get(result, PriorityKeys[i])
    ELSE FirstNonNull(result, i + 1)

\* the call got one HTTP 200 answer holding a JSON object without 'error'
PlainObjectAnswer ==
    /\ p_env[1].kind = "http"
    /\ p_env[1].status = 200
    /\ p_env[1].body.t = "obj"
    /\ "error" \notin DOMAIN p_env[1].body.o

\* C3, as stated: for an HTTP 200 JSON object without an 'error' key,
\* predict() returns the value of the first priority key that is present
\* with a non-null value (0, 0.0 and "" included), and the stringified
\* response only if there is none.
C3_FirstNonNullKey ==
    (p_pc = "returned" /\ PlainObjectAnswer)
        => (~p_out.raised /\ p_out.ret = FirstNonNull(p_env[1].body, 1))

\* C4, as stated: whatever the remote end does, predict() does not raise
\* and returns a number or a string.
C4_NumberOrString ==
    (p_pc \in {"returned", "returned_app"})
        => (~p_out.raised /\ (IsNum(p_out.ret) \/ IsStr(p_out.ret)))

-----------------------------------------------------------------------------
(* Properties of the dashboard controller, checked under Spec *)

\* the symbol of the selected asset
Selected == coins_data[selected_coin]

\* a result for the symbol is cached and was stored less than 180 s ago
Fresh(symbol) ==
    /\ symbol \in DOMAIN predictions
    /\ symbol \in DOMAIN prediction_time
    /\ now - prediction_time[symbol] < 180

\* C5: a press of the predict button issues no request and leaves the cached
\* result and its time unchanged when a result for the asset was stored less
\* than 180 s ago; otherwise it issues a request and overwrites the cached
\* result and its time.
C5_CacheWindow ==
    [][PressPredict =>
        /\ Fresh(Selected) =>
                /\ run'.handler = "cached"
                /\ run'.requests = 0
                /\ predictions' = predictions
                /\ prediction_time' = prediction_time
        /\ ~Fresh(Selected) =>
                /\ run'.handler = "fetched"
                /\ run'.requests >= 1
                /\ Selected \in DOMAIN predictions'
                /\ \E env \in DashEnvs :
                        predictions'[Selected] = predict(env, Selected).ret
                /\ Selected \in DOMAIN prediction_time'
                /\ prediction_time'[Selected] = now'
    ]_vars

C5_Witness ==
    /\ run.handler = "cached"
    /\ Fresh(Selected)
    /\ now > prediction_time[Selected]

\* C9: the keys of the predictions map are among BTC, ETH, XRP, SOL.
C9_KeysAreSymbols == DOMAIN predictions \subseteq {"BTC", "ETH", "XRP", "SOL"}

C9_Witness ==
    /\ DOMAIN predictions = {"BTC", "ETH", "XRP", "SOL"}
    /\ run.handler = "fetched"

\* the cached result and time of the symbol are the same before and after
SameEntry(symbol) ==
    /\ (symbol \in DOMAIN predictions') = (symbol \in DOMAIN predictions)
    /\ symbol \in DOMAIN predictions => predictions'[symbol] = predictions[symbol]
    /\ (symbol \in DOMAIN prediction_time') = (symbol \in DOMAIN prediction_time)
    /\ symbol \in DOMAIN prediction_time
            => prediction_time'[symbol] = prediction_time[symbol]

\* some other asset holds a failure string
OtherFailed(symbol) ==
    \E a \in DOMAIN predictions : a # symbol /\ IsStr(predictions[a])

\* C10: a press of the predict button for an asset changes the cached result
\* and time of no other asset, whatever the outcome; and a failure cached for
\* another asset does not keep the request of this asset from being issued.
C10_FailureIsolation ==
    [][PressPredict =>
        /\ \A s \in ({"BTC", "ETH", "XRP", "SOL"} \cup DOMAIN predictions
                        \cup DOMAIN predictions') \ {Selected} : SameEntry(s)
        /\ (OtherFailed(Selected) /\ ~Fresh(Selected)) =>
                (run'.handler = "fetched" /\ run'.requests >= 1)
    ]_vars

C10_Witness ==
    /\ selected_coin = "Ethereum"
    /\ run.handler = "fetched"
    /\ DOMAIN predictions = {"BTC", "ETH"}
    /\ predictions["BTC"] = JStr("Connection Error")
    /\ IsNum(predictions["ETH"])
    /\ prediction_time["BTC"] < prediction_time["ETH"]

-----------------------------------------------------------------------------
(* Properties of the services, checked under SpecSvc *)

\* the reply is an HTTP 200 object holding a numeric predicted_next_day_high
\* and no error
IsPrediction(r) ==
    /\ r.status = 200
    /\ r.body.t = "obj"
    /\ "error" \notin DOMAIN r.body.o
    /\ "predicted_next_day_high" \in DOMAIN r.body.o
    /\ r.body.o["predicted_next_day_high"].t = "num"

Abs(i) == IF i < 0 THEN 0 - i ELSE i

HealthReplies(svc, mdl) ==
    CASE svc = "BTC" -> {health_btc(mdl)}
      [] svc = "XRP" -> {health_xrp(mdl)}
      [] OTHER -> {health_check(mdl, exists) : exists \in {x \in BOOLEAN : mdl => x}}

\* C7, as stated: the GET /health reply of a service in the fallback state
\* is never a reply the service gives when its model is loaded.
C7_HealthDistinguishes ==
    (reply.endpoint = "health" /\ ~model[reply.svc])
        => reply \notin HealthReplies(reply.svc, TRUE)

\* the dashboard called the Bitcoin service in the fallback state
BitcoinFallbackCall ==
    /\ p_pc = "returned"
    /\ p_coin = "BTC"
    /\ ~model["BTC"]
    /\ features = Payload

\* C8, as stated: the dashboard's feature vector sent to the Bitcoin service
\* in the fallback state yields predicted_next_day_high = 106.58, which
\* predict() returns.
C8_EndToEnd10658 ==
    BitcoinFallbackCall =>
        /\ Get(p_env[1].body, "predicted_next_day_high") = JNum(1065800)
        /\ p_out.ret = JNum(1065800)

\* C8, amended: the dashboard's feature vector sent to the Bitcoin service
\* in the fallback state yields predicted_next_day_high = 106.57 (the double
\* product 105 * 1.015 lies below 106.575), which predict() returns.
C8_EndToEnd10657 ==
    BitcoinFallbackCall =>
        /\ Get(p_env[1].body, "predicted_next_day_high") = JNum(1065700)
        /\ p_out.ret = JNum(1065700)
        /\ p_out.requests = 1

C8_Witness ==
    /\ BitcoinFallbackCall
    /\ p_out.ret = JNum(1065700)

-----------------------------------------------------------------------------
(* Properties of get_coin_history(), checked under SpecMarket *)

\* a price point that is a [timestamp, price] pair of two numbers
IsPair(v) ==
    /\ v.t = "list"
    /\ Len(v.items) = 2
    /\ v.items[1].t \in {"int", "num"}
    /\ v.items[2].t = "num"

\* the answer carries a non-empty list of [timestamp, price] pairs
WellFormedHistory(resp) ==
    /\ resp.kind = "http"
    /\ resp.body # NotJson
    /\ resp.body.t = "obj"
    /\ "prices" \in DOMAIN resp.body.o
    /\ resp.body.o["prices"].t = "list"
    /\ Len(resp.body.o["prices"].items) > 0
    /\ \A i \in DOMAIN resp.body.o["prices"].items :
            IsPair(resp.body.o["prices"].items[i])

\* C11, as stated: for every malformed or empty market-data response (a
\* network failure, a body that is not JSON, JSON that is not an object,
\* 'prices' missing or empty, a price point that is not a [timestamp, price]
\* pair or whose timestamp is not a number) get_coin_history returns None
\* and does not raise.
C11_NoneOnMalformed ==
    (m_pc = "history" /\ ~WellFormedHistory(m_in))
        => (~m_out.raised /\ m_out.ret = JNull)

\* the samples of a well-formed answer, their dates, and the dates kept
Samples == m_in.body.o["prices"].items

SampleDate(i) == DateOf(TimestampOf(Samples[i].items[1]))

SampleDates == {SampleDate(i) : i \in DOMAIN Samples}

RecentDates ==
    {d \in SampleDates : Cardinality({e \in SampleDates : e > d}) < KeptDays}

\* the positions of the samples of a date
SamplesOf(date) == {i \in DOMAIN Samples : SampleDate(i) = date}

\* the candle c is the open, high, low and close of the samples of its date
IsDailyCandle(c) ==
    LET idx   == SamplesOf(c.date)
        first == CHOOSE i \in idx : \A j \in idx : i <= j
        last  == CHOOSE i \in idx : \A j \in idx : j <= i
    IN  /\ idx # {}
        /\ c.open = Samples[first].items[2]
        /\ c.close = Samples[last].items[2]
        /\ \E i \in idx : c.high = Samples[i].items[2]
        /\ \E i \in idx : c.low = Samples[i].items[2]
        /\ \A i \in idx : /\ c.low.n <= Samples[i].items[2].n
                          /\ Samples[i].items[2].n <= c.high.n
        /\ c.low.n <= c.open.n /\ c.open.n <= c.high.n
        /\ c.low.n <= c.close.n /\ c.close.n <= c.high.n

\* C12: for a non-empty sequence of price samples get_coin_history returns
\* exactly one candle for each of the 7 most recent calendar dates present,
\* in ascending date order; a candle's open is the first sample of its date,
\* its close the last, its high the maximum and its low the minimum over all
\* samples of the date, so low <= open, close <= high.
C12_DailyCandles ==
    (m_pc = "history" /\ WellFormedHistory(m_in)) =>
        /\ ~m_out.raised
        /\ m_out.ret.t = "candles"
        /\ LET items == m_out.ret.items
           IN  /\ Len(items) = Cardinality(RecentDates)
               /\ \A k \in DOMAIN items : items[k].date \in RecentDates
               /\ \A j, k \in DOMAIN items : j < k => items[j].date < items[k].date
               /\ \A k \in DOMAIN items : IsDailyCandle(items[k])

\* more than 7 dates were sent, the oldest was dropped, and the oldest date
\* kept has three samples of which the lowest is the middle one
C12_Witness ==
    /\ m_pc = "history"
    /\ WellFormedHistory(m_in)
    /\ Cardinality(SampleDates) = KeptDays + 1
    /\ m_out.ret.t = "candles"
    /\ Len(m_out.ret.items) = KeptDays
    /\ m_out.ret.items[1].date = 1
    /\ Cardinality(SamplesOf(1)) = 3
    /\ m_out.ret.items[1].low.n < m_out.ret.items[1].open.n
    /\ m_out.ret.items[1].low.n < m_out.ret.items[1].close.n

-----------------------------------------------------------------------------
(* Further properties of predict(), checked under SpecPredict *)

\* attempt < max_retries - 1
BudgetRemains(attempt) == attempt + 1 < max_retries

\* C13: when a request times out, predict() re-issues it at once, without
\* sleeping, if attempt < max_retries - 1, and otherwise returns "Request
\* Timeout"; it never issues more than max_retries requests.
C13_TimeoutRetry ==
    /\ p_pc = "returned" =>
            \A attempt \in 0..(max_retries - 1) :
                Attempt(p_coin, TimeoutResp, attempt) =
                    IF BudgetRemains(attempt) THEN Continue(<<>>)
                    ELSE Return(JStr("Request Timeout"))
    /\ p_pc = "returned" => p_out.requests <= max_retries
    /\ (p_pc = "returned" /\ p_out.requests >= 1
            /\ p_env[p_out.requests] = TimeoutResp)
            => /\ ~BudgetRemains(p_out.requests - 1)
               /\ p_out.ret = JStr("Request Timeout")
    /\ (p_pc = "returned" /\ AllAnswers(TimeoutResp))
            => /\ p_out.requests = max_retries
               /\ p_out.sleeps = <<>>
               /\ p_out.ret = JStr("Request Timeout")

C13_Witness ==
    /\ p_pc = "returned"
    /\ AllAnswers(TimeoutResp)
    /\ p_out.requests = max_retries
    /\ p_out.sleeps = <<>>
    /\ p_out.ret = JStr("Request Timeout")

\* the first request was answered with an HTTP status other than 200 and 429
OtherStatus ==
    /\ p_env[1].kind = "http"
    /\ p_env[1].status \notin {200, 429}

\* C14: on an HTTP status that is neither 200 nor 429, predict() returns at
\* once, without a retry or a sleep, a string that embeds the status code:
\* "API Error: <status>" in Streamlit_app.py, the same followed by the
\* start of the response text in app.py.
C14_OtherStatusReturns ==
    /\ (p_pc = "returned" /\ OtherStatus)
            => /\ p_out.requests = 1
               /\ p_out.sleeps = <<>>
               /\ ~p_out.raised
               /\ p_out.ret = Fmt("API Error: ", [t |-> "int", i |-> p_env[1].status])
    /\ (p_pc = "returned_app" /\ OtherStatus)
            => /\ p_out.requests = 1
               /\ p_out.sleeps = <<>>
               /\ ~p_out.raised
               /\ IsStr(p_out.ret)
               /\ p_out.ret.prefix = "API Error: "
               /\ p_out.ret.arg.i = p_env[1].status

C14_Witness ==
    /\ p_pc = "returned"
    /\ p_env[1] = Http(500, NotJson)
    /\ p_out.requests = 1
    /\ p_out.ret = Fmt("API Error: ", [t |-> "int", i |-> 500])

\* the first request was answered with HTTP 200 and a JSON object that has
\* an 'error' key
ErrorObjectAnswer ==
    /\ p_env[1].kind = "http"
    /\ p_env[1].status = 200
    /\ p_env[1].body.t = "obj"
    /\ "error" \in DOMAIN p_env[1].body.o

\* the answer of the XRP service when its model is not loaded
XrpFallbackAnswer ==
    \E inf \in Inferences :
        p_env[1] = Http(predict_latest(FALSE, inf).status,
                        predict_latest(FALSE, inf).body)

\* C17: when the answer is HTTP 200 with a JSON object that has an 'error'
\* key, predict() does not return a number: the last attempt allowed by
\* max_retries returns "API Error: <error>", also when a prediction key is
\* present; for the XRP service without its model the result is
\* "API Error: Model not loaded".
C17_ErrorKeyWins ==
    /\ \A attempt \in 0..(max_retries - 1) :
            (p_pc = "returned" /\ ErrorObjectAnswer) =>
                Attempt(p_coin, p_env[1], attempt) =
                    IF BudgetRemains(attempt) THEN Continue(<<retry_delay>>)
                    ELSE Return(Fmt("API Error: ", p_env[1].body.o["error"]))
    /\ (p_pc = "returned" /\ ErrorObjectAnswer /\ AllAnswers(p_env[1]))
            => /\ ~IsNum(p_out.ret)
               /\ IsStr(p_out.ret)
               /\ p_out.requests = max_retries
               /\ p_out.ret = Fmt("API Error: ", p_env[1].body.o["error"])
    /\ (p_pc = "returned" /\ p_coin = "XRP" /\ XrpFallbackAnswer
            /\ AllAnswers(p_env[1]))
            => p_out.ret = Fmt("API Error: ", JStr("Model not loaded"))

\* an 'error' key of value null beside a prediction
C17_Witness ==
    /\ p_pc = "returned"
    /\ p_env[1] = Http(200, JObj(("error" :> JNull) @@ ("prediction" :> JNum(50000))))
    /\ p_out.ret = Fmt("API Error: ", JNull)

-----------------------------------------------------------------------------
(* The cache of the dashboard and failed predictions, checked under Spec *)

\* C15: the 180 s window covers failed predictions as it covers numbers: a
\* press that fetches stores the error string under the symbol with the time
\* of the press, and a press less than 180 s after that issues no request
\* and leaves the error string in place.
C15_ErrorsCached ==
    [][PressPredict =>
        /\ (Fresh(Selected) /\ IsStr(predictions[Selected])) =>
                /\ run'.handler = "cached"
                /\ run'.requests = 0
                /\ predictions' = predictions
                /\ prediction_time' = prediction_time
        /\ (run'.handler = "fetched" /\ IsStr(predictions'[Selected])) =>
                /\ prediction_time'[Selected] = now'
                /\ now' - prediction_time'[Selected] < 180
    ]_vars

\* a press served from the cache while the cached result is an error string
C15_Witness ==
    /\ run.handler = "cached"
    /\ Selected \in DOMAIN predictions
    /\ IsStr(predictions[Selected])
    /\ Fresh(Selected)
    /\ now > prediction_time[Selected]

-----------------------------------------------------------------------------
(* The number of requests of every fetch, checked under SpecFetch *)

====
